---- MODULE Spec2Model ----
(***************************************************************************)
(* A model of lld's ELF symbol representation (ELF/Symbols.h): the Symbol  *)
(* core and its five variants, the storage slot (SymbolUnion), the         *)
(* in-place resolution primitive replaceSymbol<T>, the lazy fetch          *)
(* protocol and the slot-index bookkeeping.                                *)
(***************************************************************************)
EXTENDS Integers, Sequences, FiniteSets, TLC

(***************************************************************************)
(* Program constants.                                                      *)
(***************************************************************************)
\* enum Symbol::Kind
DefinedKind == 0
SharedKind == 1
UndefinedKind == 2
LazyArchiveKind == 3
LazyObjectKind == 4

\* llvm::ELF symbol bindings, types and visibility used by Symbols.h
\* (an st_other of 2 is hidden visibility)
STB_LOCAL == 0
STB_GLOBAL == 1
STB_WEAK == 2
STT_OBJECT == 1
STT_FUNC == 2
STT_TLS == 6
STT_GNU_IFUNC == 10
STV_DEFAULT == 0
UnknownType == 255

\* uint32_t, held exactly as its two 16-bit halves <<high, low>>: ToU32 is
\* the conversion of an int to uint32_t (reduction modulo 2^32).
Half == 65536
ToU32(v) == << (v \div Half) % Half, v % Half >>
\* the value of the expression -1U
NOT_PRESENT == ToU32(-1)

Kinds == {DefinedKind, SharedKind, UndefinedKind, LazyArchiveKind, LazyObjectKind}
Bindings == {STB_LOCAL, STB_GLOBAL, STB_WEAK}

\* the null pointer (InputFile *, SectionBase *, InputSection *)
Null == "nullptr"

(***************************************************************************)
(* Bounds and input sets.                                                  *)
(***************************************************************************)
\* fetch() calls made on one Lazy between two constructions
MaxFetch == 2
\* trace-hook invocations counted per slot
MaxTrace == 2

\* Addresses of SymbolUnion buffers.  Slot is the buffer the symbol table
\* owns; Spare is storage no symbol has been constructed in.
Slot == "slot0"
Spare == "slot1"
Addrs == {Slot, Spare}

Types == {STT_FUNC, STT_GNU_IFUNC, STT_TLS, UnknownType}

\* Values of the fields Symbol's constructor leaves uninitialised (VersionId,
\* Visibility and the five one-bit flags), as the symbol table sets them.
PreservedValues ==
  { [VersionId |-> 0, Visibility |-> 0, IsUsedInRegularObj |-> FALSE,
     ExportDynamic |-> FALSE, CanInline |-> FALSE, Traced |-> FALSE,
     InVersionScript |-> FALSE],
    [VersionId |-> 1, Visibility |-> 3, IsUsedInRegularObj |-> TRUE,
     ExportDynamic |-> TRUE, CanInline |-> TRUE, Traced |-> TRUE,
     InVersionScript |-> TRUE],
    [VersionId |-> 2, Visibility |-> 2, IsUsedInRegularObj |-> TRUE,
     ExportDynamic |-> FALSE, CanInline |-> TRUE, Traced |-> FALSE,
     InVersionScript |-> FALSE] }

\* What those fields can hold right after construction, before anything is
\* assigned to them: an indeterminate value.
Indeterminate ==
  { [VersionId |-> 0, Visibility |-> 0, IsUsedInRegularObj |-> FALSE,
     ExportDynamic |-> FALSE, CanInline |-> FALSE, Traced |-> FALSE,
     InVersionScript |-> FALSE],
    [VersionId |-> 3, Visibility |-> 1, IsUsedInRegularObj |-> TRUE,
     ExportDynamic |-> TRUE, CanInline |-> TRUE, Traced |-> TRUE,
     InVersionScript |-> TRUE] }

\* Constructor arguments of each variant.
DefinedArgs ==
  [File : {"a.o"}, Name : {"foo"}, Binding : Bindings, StOther : {STV_DEFAULT},
   Type : {STT_FUNC, STT_GNU_IFUNC}, Value : {4096}, Size : {8},
   Section : {Null}]
UndefinedArgs ==
  [File : {"b.o"}, Name : {"foo"}, Binding : Bindings, StOther : {2},
   Type : {STT_FUNC, STT_TLS}]
SharedArgs ==
  [File : {"libc.so"}, Name : {"foo"}, Binding : Bindings,
   StOther : {STV_DEFAULT}, Type : Types, Value : {4096}, Size : {8},
   Alignment : {8}, VerdefIndex : {1}]
LazyArchiveArgs ==
  [File : {"libc.a"}, Sym : {[Name |-> "foo", Member |-> "foo.o"]},
   Type : {STT_TLS, UnknownType}]
LazyObjectArgs ==
  [File : {"lazy.o"}, Name : {"foo"}, Type : {STT_FUNC, UnknownType}]

CtorArgs(T) ==
  CASE T = DefinedKind -> DefinedArgs
    [] T = SharedKind -> SharedArgs
    [] T = UndefinedKind -> UndefinedArgs
    [] T = LazyArchiveKind -> LazyArchiveArgs
    [] T = LazyObjectKind -> LazyObjectArgs

(***************************************************************************)
(* The Symbol core.                                                        *)
(***************************************************************************)
\* mutant: GotIndex initialised like DynsymIndex
DefaultIndices_GotZero ==
  [ DynsymIndex |-> ToU32(0), GotIndex |-> ToU32(0), GotPltIndex |-> ToU32(-1),
    PltIndex |-> ToU32(-1), GlobalDynIndex |-> ToU32(-1) ]

\* The default member initialisers of the five slot indices.
DefaultIndices ==
  [ DynsymIndex |-> ToU32(0), GotIndex |-> ToU32(-1), GotPltIndex |-> ToU32(-1),
    PltIndex |-> ToU32(-1), GlobalDynIndex |-> ToU32(-1) ]

\* Symbol::Symbol.  The member initialiser list and the default member
\* initialisers set every field but the seven in u, which the constructor
\* leaves uninitialised: u is the indeterminate content they then hold.
SymbolCtor(K, File, Name, Binding, StOther, Type, GcSections, u) ==
  [ SymbolKind |-> K,
    Binding |-> Binding,
    VersionId |-> u.VersionId,
    Visibility |-> u.Visibility,
    IsUsedInRegularObj |-> u.IsUsedInRegularObj,
    ExportDynamic |-> u.ExportDynamic,
    CanInline |-> u.CanInline,
    Traced |-> u.Traced,
    InVersionScript |-> u.InVersionScript,
    File |-> File,
    DynsymIndex |-> DefaultIndices.DynsymIndex,
    GotIndex |-> DefaultIndices.GotIndex,
    GotPltIndex |-> DefaultIndices.GotPltIndex,
    PltIndex |-> DefaultIndices.PltIndex,
    GlobalDynIndex |-> DefaultIndices.GlobalDynIndex,
    NeedsPltAddr |-> FALSE,
    IsInGlobalMipsGot |-> FALSE,
    Is32BitMipsGot |-> FALSE,
    IsInIplt |-> FALSE,
    IsInIgot |-> FALSE,
    IsPreemptible |-> FALSE,
    Used |-> ~GcSections,
    Type |-> Type,
    StOther |-> StOther,
    Name |-> Name ]

kind(S) == S.SymbolKind
isWeak(S) == S.Binding = STB_WEAK
isUndefined(S) == S.SymbolKind = UndefinedKind
isShared(S) == S.SymbolKind = SharedKind
isLocal(S) == S.Binding = STB_LOCAL
\* mutant: a SharedSymbol taken for a Defined as well
isDefined_OrShared(S) == S.SymbolKind = DefinedKind \/ S.SymbolKind = SharedKind
isDefined(S) == S.SymbolKind = DefinedKind
\* mutant: LazyObjectKind forgotten
isLazy_ArchiveOnly(S) == S.SymbolKind = LazyArchiveKind
isLazy(S) == S.SymbolKind = LazyArchiveKind \/ S.SymbolKind = LazyObjectKind
\* mutant: the Lazy case forgotten
isUndefWeak_UndefinedOnly(S) == isWeak(S) /\ isUndefined(S)
isUndefWeak(S) == isWeak(S) /\ (isUndefined(S) \/ isLazy(S))
getName(S) == S.Name
\* mutant: the test made against zero
isInGot_NonZero(S) == S.GotIndex # ToU32(0)
isInGot(S) == S.GotIndex # NOT_PRESENT
isInPlt(S) == S.PltIndex # NOT_PRESENT
isTls(S) == S.Type = STT_TLS
isFunc(S) == S.Type = STT_FUNC
isGnuIFunc(S) == S.Type = STT_GNU_IFUNC
isObject(S) == S.Type = STT_OBJECT

(***************************************************************************)
(* The variants.                                                           *)
(***************************************************************************)
\* mutant: Value and Size initialised from each other's argument
DefinedCtor_ValueSizeSwapped(a, gc, u) ==
  SymbolCtor(DefinedKind, a.File, a.Name, a.Binding, a.StOther, a.Type, gc, u)
    @@ [Value |-> a.Size, Size |-> a.Value, Section |-> a.Section]

DefinedCtor(a, gc, u) ==
  SymbolCtor(DefinedKind, a.File, a.Name, a.Binding, a.StOther, a.Type, gc, u)
    @@ [Value |-> a.Value, Size |-> a.Size, Section |-> a.Section]

UndefinedCtor(a, gc, u) ==
  SymbolCtor(UndefinedKind, a.File, a.Name, a.Binding, a.StOther, a.Type, gc, u)

\* mutant: the GNU ifunc normalisation left out
SharedSymbolCtor_KeepIFunc(a, gc, u) ==
  SymbolCtor(SharedKind, a.File, a.Name, a.Binding, a.StOther, a.Type, gc, u)
    @@ [CopyRelSec |-> Null, Value |-> a.Value, Size |-> a.Size,
        VerdefIndex |-> a.VerdefIndex, Alignment |-> a.Alignment]

SharedSymbolCtor(a, gc, u) ==
  LET B == SymbolCtor(SharedKind, a.File, a.Name, a.Binding, a.StOther,
                      a.Type, gc, u)
             @@ [CopyRelSec |-> Null, Value |-> a.Value, Size |-> a.Size,
                 VerdefIndex |-> a.VerdefIndex, Alignment |-> a.Alignment]
  IN IF B.Type = STT_GNU_IFUNC THEN [B EXCEPT !.Type = STT_FUNC] ELSE B

\* Lazy::Lazy: the binding is STB_GLOBAL and st_other STV_DEFAULT.
\* mutant: the type argument dropped, every Lazy of unknown type
LazyCtor_TypeUnknown(K, File, Name, Type, gc, u) ==
  SymbolCtor(K, File, Name, STB_GLOBAL, STV_DEFAULT, UnknownType, gc, u)

LazyCtor(K, File, Name, Type, gc, u) ==
  SymbolCtor(K, File, Name, STB_GLOBAL, STV_DEFAULT, Type, gc, u)

\* mutant: the name taken from the file, not from the archive symbol
LazyArchiveCtor_FileName(a, gc, u) ==
  LazyCtor(LazyArchiveKind, a.File, a.File, a.Type, gc, u) @@ [Sym |-> a.Sym]

LazyArchiveCtor(a, gc, u) ==
  LazyCtor(LazyArchiveKind, a.File, a.Sym.Name, a.Type, gc, u) @@ [Sym |-> a.Sym]

LazyObjectCtor(a, gc, u) ==
  LazyCtor(LazyObjectKind, a.File, a.Name, a.Type, gc, u)

\* new (S) T(Arg...): the object T's constructor builds from the arguments.
Construct(T, a, gc, u) ==
  CASE T = DefinedKind -> DefinedCtor(a, gc, u)
    [] T = SharedKind -> SharedSymbolCtor(a, gc, u)
    [] T = UndefinedKind -> UndefinedCtor(a, gc, u)
    [] T = LazyArchiveKind -> LazyArchiveCtor(a, gc, u)
    [] T = LazyObjectKind -> LazyObjectCtor(a, gc, u)

(***************************************************************************)
(* replaceSymbol<T>(S, Arg...) on the object Old that S points to.         *)
(* Yields the object S points to afterwards and the sequence of symbols    *)
(* printTraceSymbol was called with.                                       *)
(***************************************************************************)
\* mutant: S->Visibility = Sym.Visibility left out
replaceSymbol_VisibilityLost(Old, T, a, gc, u) ==
  LET Sym == Old
      New == Construct(T, a, gc, u)
      Res == [New EXCEPT !.VersionId = Sym.VersionId,
                         !.IsUsedInRegularObj = Sym.IsUsedInRegularObj,
                         !.ExportDynamic = Sym.ExportDynamic,
                         !.CanInline = Sym.CanInline,
                         !.Traced = Sym.Traced,
                         !.InVersionScript = Sym.InVersionScript]
  IN [S |-> Res, trace |-> IF Res.Traced THEN <<Res>> ELSE <<>>]

\* mutant: the hook called before the new object is constructed
replaceSymbol_TraceFirst(Old, T, a, gc, u) ==
  LET Sym == Old
      New == Construct(T, a, gc, u)
      Res == [New EXCEPT !.VersionId = Sym.VersionId,
                         !.Visibility = Sym.Visibility,
                         !.IsUsedInRegularObj = Sym.IsUsedInRegularObj,
                         !.ExportDynamic = Sym.ExportDynamic,
                         !.CanInline = Sym.CanInline,
                         !.Traced = Sym.Traced,
                         !.InVersionScript = Sym.InVersionScript]
  IN [S |-> Res, trace |-> IF Sym.Traced THEN <<Sym>> ELSE <<>>]

\* The seven assignments that follow the placement new: the fields saved in
\* Sym are written back into the new object.
\* mutant: Traced not written back
restorePreserved_TracedLost(New, Sym) ==
  [New EXCEPT !.VersionId = Sym.VersionId,
              !.Visibility = Sym.Visibility,
              !.IsUsedInRegularObj = Sym.IsUsedInRegularObj,
              !.ExportDynamic = Sym.ExportDynamic,
              !.CanInline = Sym.CanInline,
              !.InVersionScript = Sym.InVersionScript]

restorePreserved(New, Sym) ==
  [New EXCEPT !.VersionId = Sym.VersionId,
              !.Visibility = Sym.Visibility,
              !.IsUsedInRegularObj = Sym.IsUsedInRegularObj,
              !.ExportDynamic = Sym.ExportDynamic,
              !.CanInline = Sym.CanInline,
              !.Traced = Sym.Traced,
              !.InVersionScript = Sym.InVersionScript]

\* mutant: the whole old core copied back, not only the seven fields
replaceSymbol_RestoreIndices(Old, T, a, gc, u) ==
  LET Sym == Old
      New == Construct(T, a, gc, u)
      Res == [New EXCEPT !.VersionId = Sym.VersionId,
                         !.Visibility = Sym.Visibility,
                         !.IsUsedInRegularObj = Sym.IsUsedInRegularObj,
                         !.ExportDynamic = Sym.ExportDynamic,
                         !.CanInline = Sym.CanInline,
                         !.Traced = Sym.Traced,
                         !.InVersionScript = Sym.InVersionScript,
                         !.GotIndex = Sym.GotIndex,
                         !.IsPreemptible = Sym.IsPreemptible]
  IN [S |-> Res, trace |-> IF Res.Traced THEN <<Res>> ELSE <<>>]

replaceSymbol(Old, T, a, gc, u) ==
  LET Sym == Old
      New == Construct(T, a, gc, u)
      Res == [New EXCEPT !.VersionId = Sym.VersionId,
                         !.Visibility = Sym.Visibility,
                         !.IsUsedInRegularObj = Sym.IsUsedInRegularObj,
                         !.ExportDynamic = Sym.ExportDynamic,
                         !.CanInline = Sym.CanInline,
                         !.Traced = Sym.Traced,
                         !.InVersionScript = Sym.InVersionScript]
  IN [S |-> Res, trace |-> IF Res.Traced THEN <<Res>> ELSE <<>>]

\* The placement new of replaceSymbol: the object is built in the buffer at S.
\* mutant: the object is built in storage of its own, not in the buffer at S
placementNew_Elsewhere(M, S, Obj) ==
  LET Free == {A \in DOMAIN M : M[A].SymbolKind = -1} IN
    IF Free = {} THEN [M EXCEPT ![S] = Obj]
    ELSE [M EXCEPT ![CHOOSE A \in Free : TRUE] = Obj]

\* mutant: the object always built in the first buffer
placementNew_FirstSlot(M, S, Obj) == [M EXCEPT ![Slot] = Obj]

placementNew(M, S, Obj) == [M EXCEPT ![S] = Obj]

(***************************************************************************)
(* Lazy::fetch (LazyArchive::fetch, LazyObject::fetch).  Only declared in  *)
(* Symbols.h; modelled from its comment "Returns an object file for this   *)
(* symbol, or a nullptr if the file was already returned" and the fetch    *)
(* protocol: a one-shot mark per lazy symbol.                              *)
(***************************************************************************)
\* the input file a Lazy defers to
lazyFile(S) ==
  IF S.SymbolKind = LazyArchiveKind THEN <<S.File, S.Sym.Member>> ELSE <<S.File>>

\* mutant: the symbol does not mark itself
fetch_Unmarked(S, mark) ==
  [ret |-> IF mark THEN Null ELSE lazyFile(S), mark |-> mark]

fetch(S, mark) ==
  [ret |-> IF mark THEN Null ELSE lazyFile(S), mark |-> TRUE]

(***************************************************************************)
(* State.                                                                  *)
(***************************************************************************)
VARIABLES
  Mem,        \* the SymbolUnion buffers: address -> the symbol built there
  Config,     \* Config->GcSections
  fetched,    \* address -> the one-shot mark of the Lazy built there
  handles,    \* the addresses other subsystems hold as Symbol *
  fetchHist,  \* address -> fetch() calls and non-null returns since construction
  traceHist,  \* address -> replaceSymbol calls made while Traced, and hook calls
  last,       \* the operation performed last, its arguments and the object before it
  ElfSym,     \* the static Defined * members of struct ElfSym
  conc        \* the replaceSymbol invocations in progress, step by step

vars == <<Mem, Config, fetched, handles, fetchHist, traceHist, last, ElfSym, conc>>

\* a buffer no symbol has been constructed in
NoSymbol == [SymbolKind |-> -1]
Allocated == {A \in Addrs : Mem[A] # NoSymbol}

NoFetch == [calls |-> 0, hits |-> 0]

\* struct ElfSym: every member is a null pointer until layout sets it
ElfSymMembers ==
  {"Bss", "Etext1", "Etext2", "Edata1", "Edata2", "End1", "End2",
   "GlobalOffsetTable", "MipsGp", "MipsGpDisp", "MipsLocalGp"}
ElfSymUnset == [M \in ElfSymMembers |-> Null]

\* no replaceSymbol invocation is in progress step by step
Sequential == [mode |-> "sequential"]
NoTrace == [traced |-> 0, hooks |-> 0]

\* A slot is created by constructing its first symbol; the symbol table sets
\* the fields the constructor leaves out.
Init ==
  /\ Config = [GcSections |-> FALSE]
  /\ \E T \in Kinds : \E a \in CtorArgs(T) : \E p \in PreservedValues :
       /\ Mem = [A \in Addrs |->
                   IF A = Slot THEN Construct(T, a, Config.GcSections, p)
                   ELSE NoSymbol]
       /\ last = [op |-> "construct", S |-> Slot, T |-> T, a |-> a]
  /\ fetched = [A \in Addrs |-> FALSE]
  /\ handles = {Slot}
  /\ fetchHist = [A \in Addrs |-> NoFetch]
  /\ traceHist = [A \in Addrs |-> NoTrace]
  /\ ElfSym = ElfSymUnset
  /\ conc = Sequential

(***************************************************************************)
(* Operations.                                                             *)
(***************************************************************************)
\* replaceSymbol<T>(S, a...).  The new occupant has no fetch mark.
ReplaceSymbol(S, T, a) ==
  /\ S \in Allocated
  /\ Mem[S].Traced => traceHist[S].hooks < MaxTrace
  /\ \E u \in Indeterminate :
       LET R == replaceSymbol(Mem[S], T, a, Config.GcSections, u) IN
         /\ Mem' = placementNew(Mem, S, R.S)
         /\ traceHist' = [traceHist EXCEPT ![S] =
                [traced |-> @.traced + (IF Mem[S].Traced THEN 1 ELSE 0),
                 hooks |-> @.hooks + Len(R.trace)]]
         /\ last' = [op |-> "replaceSymbol", S |-> S, T |-> T, a |-> a,
                     pre |-> Mem[S], trace |-> R.trace]
  /\ fetched' = [fetched EXCEPT ![S] = FALSE]
  /\ fetchHist' = [fetchHist EXCEPT ![S] = NoFetch]
  /\ UNCHANGED <<Config, ElfSym, conc, handles>>

\* S->fetch() on a Lazy
Fetch(S) ==
  /\ S \in Allocated
  /\ isLazy(Mem[S])
  /\ fetchHist[S].calls < MaxFetch
  /\ LET R == fetch(Mem[S], fetched[S]) IN
       /\ fetched' = [fetched EXCEPT ![S] = R.mark]
       /\ fetchHist' = [fetchHist EXCEPT ![S] =
              [calls |-> @.calls + 1,
               hits |-> @.hits + (IF R.ret # Null THEN 1 ELSE 0)]]
       /\ last' = [op |-> "fetch", S |-> S, pre |-> Mem[S],
                   mark |-> fetched[S], ret |-> R.ret]
  /\ UNCHANGED <<Mem, Config, ElfSym, conc, handles, traceHist>>

\* S->Binding = B, an assignment to the public field
SetBinding(S, B) ==
  /\ S \in Allocated
  /\ Mem' = [Mem EXCEPT ![S].Binding = B]
  /\ last' = [op |-> "SetBinding", S |-> S, pre |-> Mem[S]]
  /\ UNCHANGED <<Config, ElfSym, conc, fetched, handles, fetchHist, traceHist>>

\* S->Traced = B, an assignment to the public field
SetTraced(S, B) ==
  /\ S \in Allocated
  /\ Mem' = [Mem EXCEPT ![S].Traced = B]
  /\ last' = [op |-> "SetTraced", S |-> S, pre |-> Mem[S]]
  /\ UNCHANGED <<Config, ElfSym, conc, fetched, handles, fetchHist, traceHist>>

Next ==
  \/ \E S \in Addrs, T \in Kinds : \E a \in CtorArgs(T) : ReplaceSymbol(S, T, a)
  \/ \E S \in Addrs : Fetch(S)
  \/ \E S \in Addrs, B \in Bindings : SetBinding(S, B)
  \/ \E S \in Addrs, B \in BOOLEAN : SetTraced(S, B)

Spec == Init /\ [][Next]_vars

(***************************************************************************)
(* Slot bookkeeping: later phases assign the five indices, public fields   *)
(* of type uint32_t.                                                       *)
(***************************************************************************)
GotInputs == {0, -1, 65535, -65536}
PltInputs == {0, -1, 65535, -65536}
DynsymInputs == {0, 7}
GotPltInputs == {-1, 3}
GlobalDynInputs == {-1, 5}

SetDynsymIndex(S, v) ==
  /\ S \in Allocated
  /\ Mem' = [Mem EXCEPT ![S].DynsymIndex = ToU32(v)]
  /\ last' = [op |-> "SetDynsymIndex", S |-> S, pre |-> Mem[S]]
  /\ UNCHANGED <<Config, ElfSym, conc, fetched, handles, fetchHist, traceHist>>

SetGotIndex(S, v) ==
  /\ S \in Allocated
  /\ Mem' = [Mem EXCEPT ![S].GotIndex = ToU32(v)]
  /\ last' = [op |-> "SetGotIndex", S |-> S, pre |-> Mem[S]]
  /\ UNCHANGED <<Config, ElfSym, conc, fetched, handles, fetchHist, traceHist>>

SetGotPltIndex(S, v) ==
  /\ S \in Allocated
  /\ Mem' = [Mem EXCEPT ![S].GotPltIndex = ToU32(v)]
  /\ last' = [op |-> "SetGotPltIndex", S |-> S, pre |-> Mem[S]]
  /\ UNCHANGED <<Config, ElfSym, conc, fetched, handles, fetchHist, traceHist>>

SetPltIndex(S, v) ==
  /\ S \in Allocated
  /\ Mem' = [Mem EXCEPT ![S].PltIndex = ToU32(v)]
  /\ last' = [op |-> "SetPltIndex", S |-> S, pre |-> Mem[S]]
  /\ UNCHANGED <<Config, ElfSym, conc, fetched, handles, fetchHist, traceHist>>

SetGlobalDynIndex(S, v) ==
  /\ S \in Allocated
  /\ Mem' = [Mem EXCEPT ![S].GlobalDynIndex = ToU32(v)]
  /\ last' = [op |-> "SetGlobalDynIndex", S |-> S, pre |-> Mem[S]]
  /\ UNCHANGED <<Config, ElfSym, conc, fetched, handles, fetchHist, traceHist>>

\* the constructor arguments used while the indices vary
IndexArgs(T) ==
  {a \in CtorArgs(T) :
     /\ a.Type \in {STT_FUNC, UnknownType}
     /\ "Binding" \in DOMAIN a => a.Binding = STB_GLOBAL}

\* the untraced values of the fields the symbol table sets
Untraced == {p \in PreservedValues : ~p.Traced /\ p.VersionId = 0}

InitIndex ==
  /\ Config = [GcSections |-> FALSE]
  /\ \E T \in Kinds : \E a \in IndexArgs(T) : \E p \in Untraced :
       /\ Mem = [A \in Addrs |->
                   IF A = Slot THEN Construct(T, a, Config.GcSections, p)
                   ELSE NoSymbol]
       /\ last = [op |-> "construct", S |-> Slot, T |-> T, a |-> a]
  /\ fetched = [A \in Addrs |-> FALSE]
  /\ handles = {Slot}
  /\ fetchHist = [A \in Addrs |-> NoFetch]
  /\ traceHist = [A \in Addrs |-> NoTrace]
  /\ ElfSym = ElfSymUnset
  /\ conc = Sequential

NextIndex ==
  \/ \E S \in Addrs, T \in Kinds : \E a \in IndexArgs(T) : ReplaceSymbol(S, T, a)
  \/ \E S \in Addrs, v \in DynsymInputs : SetDynsymIndex(S, v)
  \/ \E S \in Addrs, v \in GotInputs : SetGotIndex(S, v)
  \/ \E S \in Addrs, v \in GotPltInputs : SetGotPltIndex(S, v)
  \/ \E S \in Addrs, v \in PltInputs : SetPltIndex(S, v)
  \/ \E S \in Addrs, v \in GlobalDynInputs : SetGlobalDynIndex(S, v)

SpecIndex == InitIndex /\ [][NextIndex]_vars

(***************************************************************************)
(* The resolver: what the symbol table does with the slot of a name when   *)
(* an input file refers to the name or offers it lazily.  Its code is not  *)
(* part of Symbols.h; it is modelled from the comment on class Lazy and    *)
(* the weak-undefined-meets-lazy rule: an Undefined and a Lazy for one     *)
(* name make the Lazy load its file, except that a weak Undefined loads    *)
(* nothing and leaves a Lazy with weak binding.                            *)
(***************************************************************************)
RefBindings == {STB_GLOBAL, STB_WEAK}
RefTypes == {STT_FUNC, STT_TLS}

\* an object file refers to the name with binding B and type Ty
AddUndefined(S, B, Ty) ==
  /\ S \in Allocated
  /\ IF isLazy(Mem[S]) /\ B # STB_WEAK
       THEN \* a strong reference: the binding becomes B, the Lazy loads
            /\ fetchHist[S].calls < MaxFetch
            /\ LET Sym == [Mem[S] EXCEPT !.Binding = B]
                   R == fetch(Sym, fetched[S]) IN
                 /\ Mem' = [Mem EXCEPT ![S] = Sym]
                 /\ fetched' = [fetched EXCEPT ![S] = R.mark]
                 /\ fetchHist' = [fetchHist EXCEPT ![S] =
                        [calls |-> @.calls + 1,
                         hits |-> @.hits + (IF R.ret # Null THEN 1 ELSE 0)]]
                 /\ last' = [op |-> "addUndefined", S |-> S, pre |-> Mem[S],
                             Binding |-> B, fetchOn |-> <<Sym>>, ret |-> R.ret]
       ELSE /\ Mem' = [Mem EXCEPT ![S] =
                 IF isLazy(@) THEN [@ EXCEPT !.Binding = STB_WEAK, !.Type = Ty]
                 ELSE IF isUndefined(@) /\ B # STB_WEAK
                        THEN [@ EXCEPT !.Binding = B]
                 ELSE @]
            /\ last' = [op |-> "addUndefined", S |-> S, pre |-> Mem[S],
                        Binding |-> B, fetchOn |-> <<>>, ret |-> Null]
            /\ UNCHANGED <<fetched, fetchHist>>
  /\ UNCHANGED <<Config, ElfSym, conc, handles, traceHist>>

\* an archive (T = LazyArchiveKind) or a lazy object file (T = LazyObjectKind)
\* offers the name
AddLazy(S, T, a) ==
  /\ S \in Allocated
  /\ IF isUndefined(Mem[S]) /\ isWeak(Mem[S])
       THEN \* weak undefined meets lazy: a Lazy of the same type, made weak
            /\ Mem[S].Traced => traceHist[S].hooks < MaxTrace
            /\ \E u \in Indeterminate :
                 LET R == replaceSymbol(Mem[S], T, [a EXCEPT !.Type = Mem[S].Type],
                                        Config.GcSections, u) IN
                   /\ Mem' = placementNew(Mem, S, [R.S EXCEPT !.Binding = STB_WEAK])
                   /\ traceHist' = [traceHist EXCEPT ![S] =
                          [traced |-> @.traced + (IF Mem[S].Traced THEN 1 ELSE 0),
                           hooks |-> @.hooks + Len(R.trace)]]
                   /\ last' = [op |-> "addLazy", S |-> S, T |-> T, a |-> a,
                               pre |-> Mem[S], trace |-> R.trace,
                               fetchOn |-> <<>>, built |-> R.S]
            /\ fetched' = [fetched EXCEPT ![S] = FALSE]
            /\ fetchHist' = [fetchHist EXCEPT ![S] = NoFetch]
       ELSE \* a strong Undefined loads the member from the file itself;
            \* any other symbol is left alone
            /\ last' = [op |-> "addLazy", S |-> S, T |-> T, a |-> a,
                        pre |-> Mem[S], trace |-> <<>>, fetchOn |-> <<>>]
            /\ UNCHANGED <<Mem, fetched, fetchHist, traceHist>>
  /\ UNCHANGED <<Config, ElfSym, conc, handles>>

\* a loaded file defines the name
AddDefined(S, a) ==
  /\ S \in Allocated
  /\ isUndefined(Mem[S]) \/ isLazy(Mem[S])
  /\ ReplaceSymbol(S, DefinedKind, a)

NextResolve ==
  \/ \E S \in Addrs, B \in RefBindings, Ty \in RefTypes : AddUndefined(S, B, Ty)
  \/ \E S \in Addrs, T \in {LazyArchiveKind, LazyObjectKind} :
       \E a \in CtorArgs(T) : AddLazy(S, T, a)
  \/ \E S \in Addrs : \E a \in DefinedArgs : AddDefined(S, a)

SpecResolve == Init /\ [][NextResolve]_vars

(***************************************************************************)
(* Names: the Name argument of the constructors varies.                    *)
(***************************************************************************)
Names == {"foo", "bar"}

\* the name T's constructor passes to Symbol::Symbol
ArgName(T, a) == IF T = LazyArchiveKind THEN a.Sym.Name ELSE a.Name

WithName(T, a, n) ==
  IF T = LazyArchiveKind THEN [a EXCEPT !.Sym.Name = n] ELSE [a EXCEPT !.Name = n]

NameArgs(T) == {WithName(T, a, n) : a \in IndexArgs(T), n \in Names}

InitName ==
  /\ Config = [GcSections |-> FALSE]
  /\ \E T \in Kinds : \E a \in NameArgs(T) : \E p \in Untraced :
       /\ Mem = [A \in Addrs |->
                   IF A = Slot THEN Construct(T, a, Config.GcSections, p)
                   ELSE NoSymbol]
       /\ last = [op |-> "construct", S |-> Slot, T |-> T, a |-> a]
  /\ fetched = [A \in Addrs |-> FALSE]
  /\ handles = {Slot}
  /\ fetchHist = [A \in Addrs |-> NoFetch]
  /\ traceHist = [A \in Addrs |-> NoTrace]
  /\ ElfSym = ElfSymUnset
  /\ conc = Sequential

NextName ==
  \/ \E S \in Addrs, T \in Kinds : \E a \in NameArgs(T) : ReplaceSymbol(S, T, a)
  \/ \E S \in Addrs : Fetch(S)
  \/ \E S \in Addrs, B \in Bindings : SetBinding(S, B)

SpecName == InitName /\ [][NextName]_vars

(***************************************************************************)
(* The bookkeeping fields.  Later passes assign the slot indices and the   *)
(* six flags of the core directly; a later replaceSymbol constructs the    *)
(* core anew.                                                              *)
(***************************************************************************)
Flags == {"NeedsPltAddr", "IsInGlobalMipsGot", "Is32BitMipsGot", "IsInIplt",
          "IsInIgot", "IsPreemptible"}

\* S->F = B for one of the six flags
SetFlag(S, F, B) ==
  /\ S \in Allocated
  /\ Mem' = [Mem EXCEPT ![S][F] = B]
  /\ last' = [op |-> "SetFlag", S |-> S, pre |-> Mem[S]]
  /\ UNCHANGED <<Config, ElfSym, conc, fetched, handles, fetchHist, traceHist>>

\* one set of constructor arguments per variant, the files all different
FieldArgs(T) ==
  {a \in CtorArgs(T) :
     /\ a.Type = (CASE T = DefinedKind -> STT_FUNC
                    [] T = UndefinedKind -> STT_TLS
                    [] T = SharedKind -> STT_GNU_IFUNC
                    [] T = LazyArchiveKind -> STT_TLS
                    [] OTHER -> UnknownType)
     /\ "Binding" \in DOMAIN a => a.Binding = STB_GLOBAL}

InitFields ==
  /\ Config = [GcSections |-> FALSE]
  /\ \E T \in Kinds : \E a \in FieldArgs(T) : \E p \in Untraced :
       /\ Mem = [A \in Addrs |->
                   IF A = Slot THEN Construct(T, a, Config.GcSections, p)
                   ELSE NoSymbol]
       /\ last = [op |-> "construct", S |-> Slot, T |-> T, a |-> a]
  /\ fetched = [A \in Addrs |-> FALSE]
  /\ handles = {Slot}
  /\ fetchHist = [A \in Addrs |-> NoFetch]
  /\ traceHist = [A \in Addrs |-> NoTrace]
  /\ ElfSym = ElfSymUnset
  /\ conc = Sequential

NextFields ==
  \/ \E S \in Addrs, T \in Kinds : \E a \in FieldArgs(T) : ReplaceSymbol(S, T, a)
  \/ \E S \in Addrs, F \in Flags : SetFlag(S, F, TRUE)
  \/ \E S \in Addrs : SetDynsymIndex(S, 7)
  \/ \E S \in Addrs : SetGotIndex(S, 0)
  \/ \E S \in Addrs : SetGotPltIndex(S, 3)
  \/ \E S \in Addrs : SetPltIndex(S, 0)
  \/ \E S \in Addrs : SetGlobalDynIndex(S, 5)

SpecFields == InitFields /\ [][NextFields]_vars

\* The operations that are not replaceSymbol, on every variant.
KindFlags == {"NeedsPltAddr", "IsPreemptible"}

NextKinds ==
  \/ \E S \in Addrs, T \in Kinds : \E a \in FieldArgs(T) : ReplaceSymbol(S, T, a)
  \/ \E S \in Addrs : Fetch(S)
  \/ \E S \in Addrs, B \in Bindings : SetBinding(S, B)
  \/ \E S \in Addrs, F \in KindFlags, B \in BOOLEAN : SetFlag(S, F, B)
  \/ \E S \in Addrs, v \in DynsymInputs : SetDynsymIndex(S, v)
  \/ \E S \in Addrs : SetGotIndex(S, 0)

SpecKinds == InitFields /\ [][NextKinds]_vars

(***************************************************************************)
(* replaceSymbol statement by statement, run by several threads.  A thread *)
(* copies the core of the slot into its local Sym, constructs the new      *)
(* object in the slot, then writes the saved fields back and calls the     *)
(* trace hook.  replaceSymbol takes no lock; when conc.serialized is set   *)
(* the callers admit one invocation at a time per slot.                    *)
(***************************************************************************)
Threads == {"t1", "t2"}
MaxInvocations == 2
Idle == [pc |-> "idle"]
ConcKinds == {DefinedKind, UndefinedKind}

\* thread t is between the first and the last statement of an invocation on S
Inside(t, S) == conc.thr[t].pc # "idle" /\ conc.thr[t].S = S

\* the callers' lock: one writer at a time per slot
MayEnter(t, S) ==
  conc.serialized => \A o \in Threads \ {t} : ~Inside(o, S)

InitConc ==
  /\ Config = [GcSections |-> FALSE]
  /\ \E T \in ConcKinds : \E a \in FieldArgs(T) : \E p \in PreservedValues :
       \E q \in Untraced : \E ser \in BOOLEAN :
       /\ Mem = [A \in Addrs |->
                   IF A = Slot THEN Construct(T, a, Config.GcSections, p)
                   ELSE Construct(UndefinedKind,
                                  CHOOSE b \in FieldArgs(UndefinedKind) : TRUE,
                                  Config.GcSections, q)]
       /\ last = [op |-> "construct", S |-> Slot, T |-> T, a |-> a]
       /\ conc = [mode |-> "concurrent", serialized |-> ser, started |-> 0,
                  thr |-> [t \in Threads |-> Idle], orig |-> Mem]
  /\ fetched = [A \in Addrs |-> FALSE]
  /\ handles = Addrs
  /\ fetchHist = [A \in Addrs |-> NoFetch]
  /\ traceHist = [A \in Addrs |-> NoTrace]
  /\ ElfSym = ElfSymUnset

\* Symbol Sym = *S;
Snapshot(t, S, T, a) ==
  /\ conc.mode = "concurrent"
  /\ conc.thr[t].pc = "idle"
  /\ conc.started < MaxInvocations
  /\ S \in Allocated
  /\ MayEnter(t, S)
  /\ conc' = [conc EXCEPT !.started = @ + 1,
                          !.thr[t] = [pc |-> "saved", S |-> S, T |-> T,
                                      a |-> a, Sym |-> Mem[S]]]
  /\ last' = [op |-> "snapshot", S |-> S, th |-> t]
  /\ UNCHANGED <<Mem, Config, ElfSym, fetched, handles, fetchHist, traceHist>>

\* new (S) T(std::forward<ArgT>(Arg)...);
PlacementNew(t) ==
  /\ conc.mode = "concurrent"
  /\ conc.thr[t].pc = "saved"
  /\ LET c == conc.thr[t] IN
       /\ \E u \in Indeterminate :
            Mem' = placementNew(Mem, c.S, Construct(c.T, c.a, Config.GcSections, u))
       /\ fetched' = [fetched EXCEPT ![c.S] = FALSE]
       /\ fetchHist' = [fetchHist EXCEPT ![c.S] = NoFetch]
       /\ last' = [op |-> "placementNew", S |-> c.S, th |-> t]
  /\ conc' = [conc EXCEPT !.thr[t].pc = "built"]
  /\ UNCHANGED <<Config, ElfSym, handles, traceHist>>

\* S->VersionId = Sym.VersionId; ... ; if (S->Traced) printTraceSymbol(S);
Restore(t) ==
  /\ conc.mode = "concurrent"
  /\ conc.thr[t].pc = "built"
  /\ LET c == conc.thr[t]
         Res == restorePreserved(Mem[c.S], c.Sym) IN
       /\ Mem' = [Mem EXCEPT ![c.S] = Res]
       /\ traceHist' = [traceHist EXCEPT ![c.S] =
              [traced |-> @.traced + (IF c.Sym.Traced THEN 1 ELSE 0),
               hooks |-> @.hooks + (IF Res.Traced THEN 1 ELSE 0)]]
       /\ last' = [op |-> "restore", S |-> c.S, th |-> t, T |-> c.T, a |-> c.a,
                   Sym |-> c.Sym,
                   trace |-> IF Res.Traced THEN <<Res>> ELSE <<>>]
  /\ conc' = [conc EXCEPT !.thr[t] = Idle]
  /\ UNCHANGED <<Config, ElfSym, fetched, handles, fetchHist>>

NextConc ==
  \/ \E t \in Threads, S \in Addrs, T \in ConcKinds :
       \E a \in FieldArgs(T) : Snapshot(t, S, T, a)
  \/ \E t \in Threads : PlacementNew(t)
  \/ \E t \in Threads : Restore(t)

SpecConc == InitConc /\ [][NextConc]_vars

(***************************************************************************)
(* Two names, each with a SymbolUnion of its own.                          *)
(***************************************************************************)
TwoKinds == {DefinedKind, UndefinedKind, LazyArchiveKind}

InitTwo ==
  /\ Config = [GcSections |-> FALSE]
  /\ \E T \in TwoKinds, T2 \in TwoKinds :
       \E a \in FieldArgs(T), a2 \in FieldArgs(T2) : \E p \in Untraced :
       /\ Mem = [A \in Addrs |->
                   IF A = Slot THEN Construct(T, a, Config.GcSections, p)
                   ELSE Construct(T2, a2, Config.GcSections, p)]
       /\ last = [op |-> "construct", S |-> Slot, T |-> T, a |-> a]
  /\ fetched = [A \in Addrs |-> FALSE]
  /\ handles = Addrs
  /\ fetchHist = [A \in Addrs |-> NoFetch]
  /\ traceHist = [A \in Addrs |-> NoTrace]
  /\ ElfSym = ElfSymUnset
  /\ conc = Sequential

NextTwo ==
  \/ \E S \in Addrs, T \in TwoKinds : \E a \in FieldArgs(T) : ReplaceSymbol(S, T, a)
  \/ \E S \in Addrs : Fetch(S)
  \/ \E S \in Addrs : SetBinding(S, STB_WEAK)
  \/ \E S \in Addrs : SetGotIndex(S, 0)
  \/ \E S \in Addrs : SetFlag(S, "IsPreemptible", TRUE)

SpecTwo == InitTwo /\ [][NextTwo]_vars

(***************************************************************************)
(* The synthetic symbols.  Once the layout is known the writer constructs  *)
(* a Defined in storage of its own and stores its address in a member of   *)
(* ElfSym.  Symbol::getVA is only declared in Symbols.h; it is modelled as *)
(* the address of the section, if any, plus Value plus the addend.         *)
(***************************************************************************)
SynthAddrs == {"synth0", "synth1"}
SynthArgs ==
  [File : {Null}, Name : {"_end"}, Binding : {STB_GLOBAL}, StOther : {2},
   Type : {0}, Value : {0, 4096}, Size : {8}, Section : {Null, ".bss"}]
Addends == {0, 16}

\* the address the layout gave a section
SectionVA(Sec) == IF Sec = ".bss" THEN 8192 ELSE 0

getVA(S, Addend) ==
  IF S.Section = Null THEN S.Value + Addend
  ELSE SectionVA(S.Section) + S.Value + Addend

InitElfSym ==
  /\ Config = [GcSections |-> FALSE]
  /\ \E T \in Kinds : \E a \in IndexArgs(T) : \E p \in Untraced :
       /\ Mem = [A \in Addrs \cup SynthAddrs |->
                   IF A = Slot THEN Construct(T, a, Config.GcSections, p)
                   ELSE NoSymbol]
       /\ last = [op |-> "construct", S |-> Slot, T |-> T, a |-> a]
  /\ fetched = [A \in Addrs |-> FALSE]
  /\ handles = {Slot}
  /\ fetchHist = [A \in Addrs |-> NoFetch]
  /\ traceHist = [A \in Addrs |-> NoTrace]
  /\ ElfSym = ElfSymUnset
  /\ conc = Sequential

\* ElfSym::M = make<Defined>(a...)
SetElfSym(M, a) ==
  /\ ElfSym[M] = Null
  /\ \E A \in SynthAddrs : \E p \in Untraced :
       /\ Mem[A] = NoSymbol
       /\ A = (IF Mem["synth0"] = NoSymbol THEN "synth0" ELSE "synth1")
       /\ Mem' = [Mem EXCEPT ![A] = DefinedCtor(a, Config.GcSections, p)]
       /\ ElfSym' = [ElfSym EXCEPT ![M] = A]
       /\ last' = [op |-> "SetElfSym", S |-> A, M |-> M, a |-> a]
  /\ UNCHANGED <<Config, conc, fetched, handles, fetchHist, traceHist>>

\* ElfSym::M->getVA(Addend)
ReadElfSym(M, Addend) ==
  /\ ElfSym[M] # Null
  /\ last' = [op |-> "getVA", S |-> ElfSym[M], M |-> M, Addend |-> Addend,
              ret |-> getVA(Mem[ElfSym[M]], Addend)]
  /\ UNCHANGED <<Mem, Config, ElfSym, conc, fetched, handles, fetchHist, traceHist>>

NextElfSym ==
  \/ \E M \in ElfSymMembers : \E a \in SynthArgs : SetElfSym(M, a)
  \/ \E M \in ElfSymMembers, Addend \in Addends : ReadElfSym(M, Addend)

SpecElfSym == InitElfSym /\ [][NextElfSym]_vars

(***************************************************************************)
(* Properties of the resolution primitive.                                 *)
(***************************************************************************)
Preserved(S) ==
  << S.VersionId, S.Visibility, S.IsUsedInRegularObj, S.ExportDynamic,
     S.CanInline, S.Traced, S.InVersionScript >>

Replaced == last.op = "replaceSymbol"
Built == last.op \in {"construct", "replaceSymbol"}

\* C1: after replaceSymbol<T>, for every prior variant, every target T and
\* all constructor arguments, VersionId, Visibility, IsUsedInRegularObj,
\* ExportDynamic, CanInline, Traced and InVersionScript of the slot have the
\* values they had immediately before the call.
C1_PreservedFields ==
  Replaced =>
    /\ Mem[last.S].VersionId = last.pre.VersionId
    /\ Mem[last.S].Visibility = last.pre.Visibility
    /\ Mem[last.S].IsUsedInRegularObj = last.pre.IsUsedInRegularObj
    /\ Mem[last.S].ExportDynamic = last.pre.ExportDynamic
    /\ Mem[last.S].CanInline = last.pre.CanInline
    /\ Mem[last.S].Traced = last.pre.Traced
    /\ Mem[last.S].InVersionScript = last.pre.InVersionScript

\* a LazyArchive with the mixed field values has just become a Defined
C1_Witness ==
  /\ Replaced
  /\ last.pre.SymbolKind = LazyArchiveKind
  /\ last.T = DefinedKind
  /\ Preserved(last.pre) = <<2, 2, TRUE, FALSE, TRUE, FALSE, FALSE>>
  /\ Preserved(Mem[last.S]) = <<2, 2, TRUE, FALSE, TRUE, FALSE, FALSE>>

\* C2: after replaceSymbol<T> the slot's Binding is the Binding it had
\* immediately before the call, for every prior variant and target.
C2_BindingSurvives ==
  Replaced => Mem[last.S].Binding = last.pre.Binding

\* C3: the symbol replaceSymbol constructs lives in the buffer it was given:
\* no other buffer comes into use, and every handle taken before still
\* denotes a constructed symbol and, for the slot replaced, the new variant.
C3_IdentityPreserved ==
  /\ Allocated = {Slot}
  /\ \A H \in handles : H \in Allocated
  /\ Replaced =>
       /\ last.S \in handles
       /\ \A H \in handles : H = last.S => Mem[H].SymbolKind = last.T

\* the handle to the slot sees a Shared where an Undefined was
C3_Witness ==
  /\ Replaced
  /\ last.pre.SymbolKind = UndefinedKind
  /\ \E H \in handles : H = last.S /\ Mem[H].SymbolKind = SharedKind

\* C4: between two constructions, of the fetch() calls made on a Lazy
\* exactly the first returns a file and every later one returns nullptr, and
\* the mark only moves from not fetched to fetched.
C4_FetchOneShot ==
  /\ \A A \in Allocated :
       isLazy(Mem[A]) =>
         /\ fetchHist[A].hits = IF fetchHist[A].calls = 0 THEN 0 ELSE 1
         /\ fetched[A] = (fetchHist[A].calls > 0)
  /\ last.op = "fetch" =>
       /\ (last.ret # Null) = (fetchHist[last.S].calls = 1)
       /\ last.mark => fetched[last.S]
       /\ last.ret # Null => last.ret = lazyFile(Mem[last.S])

\* a second fetch() on a LazyArchive came back empty
C4_Witness ==
  /\ last.op = "fetch"
  /\ Mem[last.S].SymbolKind = LazyArchiveKind
  /\ fetchHist[last.S] = [calls |-> 2, hits |-> 1]
  /\ last.ret = Null

\* C5: isUndefWeak() is true exactly of the symbols whose Binding is WEAK and
\* whose kind is Undefined, LazyArchive or LazyObject.
C5_IsUndefWeak ==
  \A A \in Allocated :
    isUndefWeak(Mem[A]) =
      (/\ Mem[A].Binding = STB_WEAK
       /\ Mem[A].SymbolKind \in {UndefinedKind, LazyArchiveKind, LazyObjectKind})

\* a weak LazyObject is undefined-weak
C5_Witness ==
  /\ Mem[Slot].SymbolKind = LazyObjectKind
  /\ Mem[Slot].Binding = STB_WEAK
  /\ isUndefWeak(Mem[Slot])

C7_SharedIFunc ==
  (Built /\ last.T = SharedKind) =>
    /\ isShared(Mem[last.S])
    /\ ~isDefined(Mem[last.S])
    /\ last.a.Type = STT_GNU_IFUNC =>
         /\ Mem[last.S].Type = STT_FUNC
         /\ isFunc(Mem[last.S])
         /\ ~isGnuIFunc(Mem[last.S])
    /\ last.a.Type # STT_GNU_IFUNC => Mem[last.S].Type = last.a.Type

\* an Undefined has become a Shared given as GNU ifunc
C7_Witness ==
  /\ Replaced
  /\ last.pre.SymbolKind = UndefinedKind
  /\ last.T = SharedKind
  /\ last.a.Type = STT_GNU_IFUNC
  /\ isFunc(Mem[last.S])

\* C8: replaceSymbol calls the trace hook once when the slot is Traced and
\* not at all otherwise, with the symbol as it is after construction and
\* restore; the hook calls of a slot number the transitions made on it
\* while Traced.
C8_TraceHook ==
  /\ \A A \in Addrs : traceHist[A].hooks = traceHist[A].traced
  /\ Replaced =>
       /\ last.pre.Traced = Mem[last.S].Traced
       /\ last.trace = IF last.pre.Traced THEN <<Mem[last.S]>> ELSE <<>>
       /\ \A i \in 1..Len(last.trace) : last.trace[i].SymbolKind = last.T

\* a traced LazyObject has become a Defined, its second traced transition
C8_Witness ==
  /\ Replaced
  /\ last.pre.SymbolKind = LazyObjectKind
  /\ last.pre.Traced
  /\ last.T = DefinedKind
  /\ Len(last.trace) = 1
  /\ last.trace[1].SymbolKind = DefinedKind
  /\ traceHist[last.S] = [traced |-> 2, hooks |-> 2]

(***************************************************************************)
(* Properties of the slot bookkeeping.                                     *)
(***************************************************************************)
\* a uint32_t with all 32 bits set
AllOnes(w) == w[1] = Half - 1 /\ w[2] = Half - 1
\* a uint32_t with no bit set
AllZero(w) == w[1] = 0 /\ w[2] = 0

C10_InGotInPlt ==
  /\ \A A \in Allocated :
       /\ isInGot(Mem[A]) = ~AllOnes(Mem[A].GotIndex)
       /\ isInPlt(Mem[A]) = ~AllOnes(Mem[A].PltIndex)
  /\ last.op = "SetGotIndex" => isInPlt(Mem[last.S]) = isInPlt(last.pre)
  /\ last.op = "SetPltIndex" => isInGot(Mem[last.S]) = isInGot(last.pre)

\* GotIndex has just been assigned 0 on a symbol in neither table
C10_Witness ==
  /\ last.op = "SetGotIndex"
  /\ ~isInGot(last.pre)
  /\ AllZero(Mem[last.S].GotIndex)
  /\ isInGot(Mem[last.S])
  /\ ~isInPlt(Mem[last.S])

(***************************************************************************)
(* Properties of names.                                                    *)
(***************************************************************************)
\* C11 as stated: whatever operation is performed on a slot, replaceSymbol
\* with any target variant and arguments included, getName() returns
\* afterwards what it returned before.
C11_NameImmutable ==
  last.op # "construct" => getName(Mem[last.S]) = getName(last.pre)

\* C11 as amended: after replaceSymbol<T>, getName() returns the name given
\* to T's constructor, so the name the slot had whenever the caller passes
\* that name; fetch() and assignments to Binding leave the name alone.
C11_NameFromCtor ==
  /\ Replaced =>
       /\ getName(Mem[last.S]) = ArgName(last.T, last.a)
       /\ ArgName(last.T, last.a) = getName(last.pre) =>
            getName(Mem[last.S]) = getName(last.pre)
  /\ last.op \in {"fetch", "SetBinding"} =>
       getName(Mem[last.S]) = getName(last.pre)

\* an Undefined foo has become a LazyArchive of the archive symbol foo
C11_Witness ==
  /\ Replaced
  /\ last.pre.SymbolKind = UndefinedKind
  /\ getName(last.pre) = "foo"
  /\ last.T = LazyArchiveKind
  /\ last.a.Sym.Name = "foo"
  /\ getName(Mem[last.S]) = "foo"

C13_OneKind ==
  /\ \A S \in Allocated :
       /\ kind(Mem[S]) \in Kinds
       /\ Cardinality({P \in {"D", "S", "U", "L"} :
              \/ P = "D" /\ isDefined(Mem[S])
              \/ P = "S" /\ isShared(Mem[S])
              \/ P = "U" /\ isUndefined(Mem[S])
              \/ P = "L" /\ isLazy(Mem[S])}) = 1
  /\ ~Built => kind(Mem[last.S]) = kind(last.pre)
  /\ (last.op = "fetch" /\ last.ret # Null) => isLazy(Mem[last.S])

\* a weak Lazy slot with an index and a flag assigned, whose fetch() has just
\* returned its file
C13_Witness ==
  /\ last.op = "fetch"
  /\ last.ret # Null
  /\ isLazy(Mem[last.S])
  /\ Mem[last.S].GotIndex = ToU32(0)
  /\ Mem[last.S].IsPreemptible
  /\ Mem[last.S].Binding = STB_WEAK

\* the bookkeeping fields as a constructor leaves them
FreshBookkeeping(S) ==
  /\ S.GotIndex = NOT_PRESENT
  /\ S.GotPltIndex = NOT_PRESENT
  /\ S.PltIndex = NOT_PRESENT
  /\ S.GlobalDynIndex = NOT_PRESENT
  /\ S.DynsymIndex = ToU32(0)
  /\ \A F \in Flags : ~S[F]

\* C14 as stated: after every replaceSymbol the slot indices and the six
\* flags are as a constructor leaves them, and Type, StOther and File are
\* the values passed to the new constructor.
C14_ResetToPassed ==
  Replaced =>
    /\ FreshBookkeeping(Mem[last.S])
    /\ Mem[last.S].File = last.a.File
    /\ Mem[last.S].Type = last.a.Type
    /\ "StOther" \in DOMAIN last.a => Mem[last.S].StOther = last.a.StOther

\* C14 amended: after every replaceSymbol the slot indices and the six
\* flags are as a constructor leaves them and File is the file passed; Type
\* is the type passed, but STT_FUNC for a SharedSymbol given STT_GNU_IFUNC;
\* StOther is the value passed, and STV_DEFAULT for a Lazy, which takes none.
C14_ResetByCtor ==
  Replaced =>
    /\ FreshBookkeeping(Mem[last.S])
    /\ Mem[last.S].File = last.a.File
    /\ Mem[last.S].Type =
         (IF last.T = SharedKind /\ last.a.Type = STT_GNU_IFUNC
          THEN STT_FUNC ELSE last.a.Type)
    /\ Mem[last.S].StOther =
         (IF "StOther" \in DOMAIN last.a THEN last.a.StOther ELSE STV_DEFAULT)

\* a slot with an index and a flag assigned has just been replaced by a
\* variant from another file
C14_Witness ==
  /\ Replaced
  /\ last.pre.GotIndex = ToU32(0)
  /\ last.pre.PltIndex = ToU32(0)
  /\ last.pre.DynsymIndex = ToU32(7)
  /\ last.pre.IsPreemptible
  /\ last.pre.NeedsPltAddr
  /\ last.pre.File # last.a.File
  /\ FreshBookkeeping(Mem[last.S])
  /\ Mem[last.S].File = last.a.File

(***************************************************************************)
(* Properties of concurrent invocations.                                   *)
(***************************************************************************)
\* no invocation is under way on the slot at A
Quiet(A) == \A t \in Threads : ~Inside(t, A)

\* C15: when the invocations on one slot are serialized, then after any
\* interleaving of the steps of invocations on distinct slots the preserved
\* fields of every slot have their original values, and each invocation has
\* the effect of replaceSymbol on what it found; without serialization two
\* invocations on one slot can leave a preserved field changed (the state
\* C15_Witness).
C15_SerializedKeepsPreserved ==
  (conc.mode = "concurrent" /\ conc.serialized) =>
    /\ \A A \in Addrs :
         Quiet(A) => Preserved(Mem[A]) = Preserved(conc.orig[A])
    /\ last.op = "restore" =>
         \A u \in Indeterminate :
           Mem[last.S] =
             replaceSymbol(last.Sym, last.T, last.a, Config.GcSections, u).S

\* two invocations on one slot, not serialized, have both returned and Traced
\* or Visibility of the slot is not what it was before them
C15_Witness ==
  /\ conc.mode = "concurrent"
  /\ ~conc.serialized
  /\ conc.started = 2
  /\ \A t \in Threads : conc.thr[t].pc = "idle"
  /\ Mem[Spare] = conc.orig[Spare]
  /\ \/ Mem[Slot].Traced # conc.orig[Slot].Traced
     \/ Mem[Slot].Visibility # conc.orig[Slot].Visibility

(***************************************************************************)
(* Properties of the Lazy constructors.                                    *)
(***************************************************************************)
LazyKinds == {LazyArchiveKind, LazyObjectKind}

C17_OtherSlotsUnchanged ==
  [][ last'.op = "replaceSymbol" =>
        \A A \in Addrs \ {last'.S} :
          /\ Mem'[A] = Mem[A]
          /\ fetched'[A] = fetched[A]
          /\ fetchHist'[A] = fetchHist[A] ]_vars

\* the first slot has just been replaced while the second holds a weak
\* LazyArchive with an index and a flag assigned that has given out its file
C17_Witness ==
  /\ Replaced
  /\ last.S = Slot
  /\ isLazy(Mem[Spare])
  /\ fetched[Spare]
  /\ fetchHist[Spare].hits = 1
  /\ Mem[Spare].GotIndex = ToU32(0)
  /\ Mem[Spare].IsPreemptible
  /\ Mem[Spare].Binding = STB_WEAK

====
